---- MODULE Spec2Model ----
(***************************************************************************)
(* HeapQueue (src/elegant_heap_queue/heap_queue.py): a priority queue kept *)
(* as a heapq list of (ordering key, element) tuples.                      *)
(*                                                                         *)
(* Positions are 1-based here (TLA+ sequences); Python's index i is        *)
(* position i+1, so the parent of position p is p \div 2 and its children  *)
(* are 2p and 2p+1.  Comparisons return 1 (true), 0 (false) or -1 (the     *)
(* comparison raised TypeError), as PyObject_RichCompareBool does.         *)
(***************************************************************************)
EXTENDS Integers, Sequences, FiniteSets, TLC

\* ---------------------------------------------------------------- bounds
MaxVal == 2
MaxLen == 4
MaxIns == 3
MaxBatch == 2
MaxPeeks == 3
MaxLenLong == 6
MaxInsLong == 6
MaxPopsLong == 3

\* ---------------------------------------------------------------- elements
\* An element carries a value.  cmp tells whether its class defines
\* __lt__/__gt__ (ordered by val, as an int is) or is a plain class such as
\* the tests' DummyClass, which has no ordering and whose == is identity:
\* a record with cmp FALSE stands for one object.
Items == [val : 0..MaxVal, cmp : BOOLEAN]

MIN_HEAP == "MIN_HEAP"
MAX_HEAP == "MAX_HEAP"
HeapType == {MAX_HEAP, MIN_HEAP}

\* key=None, or key=lambda x: x.val // 2, a key function under which
\* different elements can have the same priority
NoKey == "None"
HalfKey == "val // 2"
KeyFunctions == {NoKey, HalfKey}

KeyFunction(item) == item.val \div 2

Bool(b) == IF b THEN 1 ELSE 0

\* a < b on elements
ObjLT(a, b) ==
    IF a.cmp /\ b.cmp
    THEN Bool(a.val < b.val)
    ELSE -1

\* a > b on elements
ObjGT(a, b) == ObjLT(b, a)

CmpErr == 2

__cmp_fn(a, b) ==
    IF ObjGT(a, b) = -1 THEN CmpErr
    ELSE IF ObjGT(a, b) = 1 THEN 1
    ELSE IF ObjLT(a, b) = 1 THEN -1
    ELSE 0

__cmp_fn_reversed(a, b) == __cmp_fn(b, a)

__is_sortable(obj) == obj.cmp

\* ---------------------------------------------------------------- ordering keys
\* An ordering key is an int (key function configured) or a functools
\* cmp_to_key wrapper around the element (no key function).
NoObj == [val |-> 0, cmp |-> TRUE]

IntKey(n) == [wrapped |-> FALSE, n |-> n, obj |-> NoObj, rev |-> FALSE]

__default_key_fn(val) == [wrapped |-> TRUE, n |-> 0, obj |-> val, rev |-> FALSE]

__default_key_fn_reversed(val) == [wrapped |-> TRUE, n |-> 0, obj |-> val, rev |-> TRUE]

\* __prepare_value that forgets to negate the key for MAX_HEAP
PrepareValueNoNegation(key, ht, val) ==
    IF key # NoKey
    THEN [k |-> IntKey(KeyFunction(val)), v |-> val]
    ELSE IF ht = MIN_HEAP
         THEN [k |-> __default_key_fn(val), v |-> val]
         ELSE [k |-> __default_key_fn_reversed(val), v |-> val]

__prepare_value(key, ht, val) ==
    IF key # NoKey
    THEN IF ht = MIN_HEAP
         THEN [k |-> IntKey(KeyFunction(val)), v |-> val]
         ELSE [k |-> IntKey(-KeyFunction(val)), v |-> val]
    ELSE IF ht = MIN_HEAP
         THEN [k |-> __default_key_fn(val), v |-> val]
         ELSE [k |-> __default_key_fn_reversed(val), v |-> val]

\* the wrapper's mycmp(self.obj, other.obj)
KeyCmp(a, b) ==
    IF a.rev THEN __cmp_fn_reversed(a.obj, b.obj) ELSE __cmp_fn(a.obj, b.obj)

KeyLT(a, b) ==
    IF ~a.wrapped THEN Bool(a.n < b.n)
    ELSE IF KeyCmp(a, b) = CmpErr THEN -1
    ELSE Bool(KeyCmp(a, b) < 0)

KeyEQ(a, b) ==
    IF ~a.wrapped THEN Bool(a.n = b.n)
    ELSE IF KeyCmp(a, b) = CmpErr THEN -1
    ELSE Bool(KeyCmp(a, b) = 0)

\* (k1, v1) < (k2, v2) on tuples: the first position that differs decides
TupleLT(x, y) ==
    IF KeyEQ(x.k, y.k) = -1 THEN -1
    ELSE IF KeyEQ(x.k, y.k) = 0 THEN KeyLT(x.k, y.k)
    ELSE IF x.v = y.v THEN 0
    ELSE ObjLT(x.v, y.v)

\* ---------------------------------------------------------------- heapq
Swap(h, i, j) == [h EXCEPT ![i] = h[j], ![j] = h[i]]

RECURSIVE _siftdown(_, _, _)
_siftdown(h, startpos, pos) ==
    IF pos > startpos
    THEN LET parentpos == pos \div 2
             c == TupleLT(h[pos], h[parentpos])
         IN  IF c = -1 THEN [h |-> h, err |-> TRUE]
             ELSE IF c = 0 THEN [h |-> h, err |-> FALSE]
             ELSE _siftdown(Swap(h, pos, parentpos), startpos, parentpos)
    ELSE [h |-> h, err |-> FALSE]

RECURSIVE _siftup_loop(_, _, _)
_siftup_loop(h, startpos, pos) ==
    IF 2 * pos <= Len(h)
    THEN LET left == 2 * pos
             c == IF left + 1 <= Len(h) THEN TupleLT(h[left], h[left + 1]) ELSE 1
             childpos == IF c = 0 THEN left + 1 ELSE left
         IN  IF c = -1 THEN [h |-> h, err |-> TRUE]
             ELSE _siftup_loop(Swap(h, pos, childpos), startpos, childpos)
    ELSE _siftdown(h, startpos, pos)

_siftup(h, pos) == _siftup_loop(h, pos, pos)

heappush(h, item) == _siftdown(Append(h, item), 1, Len(h) + 1)

\* requires Len(h) > 0; ret is the popped tuple when err is FALSE
heappop(h) ==
    LET lastelt == h[Len(h)]
        rest == SubSeq(h, 1, Len(h) - 1)
    IN  IF rest = <<>>
        THEN [h |-> rest, err |-> FALSE, ret |-> lastelt]
        ELSE LET r == _siftup([rest EXCEPT ![1] = lastelt], 1)
             IN  [h |-> r.h, err |-> r.err, ret |-> rest[1]]

\* ---------------------------------------------------------------- HeapQueue
NoErr == "none"
TypeError == "TypeError"
IndexError == "IndexError"
ValueError == "ValueError"

\* sequences of elements of length 0..n
RECURSIVE SeqsUpTo(_)
SeqsUpTo(n) ==
    IF n = 0 THEN {<<>>}
    ELSE SeqsUpTo(n - 1) \cup {Append(s, x) : s \in {t \in SeqsUpTo(n - 1) : Len(t) = n - 1}, x \in Items}

\* the insertion loop of __init__ (lines 120-123), from item i on;
\* n counts the heappush calls that returned
RECURSIVE InitLoop(_, _, _, _, _, _)
InitLoop(h, key, ht, items, i, n) ==
    IF i > Len(items) THEN [heap |-> h, err |-> NoErr, ret |-> <<>>, n |-> n]
    ELSE LET r == heappush(h, __prepare_value(key, ht, items[i]))
         IN  IF r.err THEN [heap |-> r.h, err |-> TypeError, ret |-> <<>>, n |-> n]
             ELSE InitLoop(r.h, key, ht, items, i + 1, n + 1)

\* __init__ that validates each item just before inserting it, as push_all does
RECURSIVE InitInterleavedLoop(_, _, _, _, _, _)
InitInterleavedLoop(h, key, ht, items, i, n) ==
    IF i > Len(items) THEN [heap |-> h, err |-> NoErr, ret |-> <<>>, n |-> n]
    ELSE IF key = NoKey /\ ~__is_sortable(items[i])
    THEN [heap |-> h, err |-> TypeError, ret |-> <<>>, n |-> n]
    ELSE LET r == heappush(h, __prepare_value(key, ht, items[i]))
         IN  IF r.err THEN [heap |-> r.h, err |-> TypeError, ret |-> <<>>, n |-> n]
             ELSE InitInterleavedLoop(r.h, key, ht, items, i + 1, n + 1)

HeapQueueInitInterleaved(items, ht, key) == InitInterleavedLoop(<<>>, key, ht, items, 1, 0)

\* __init__: when the validation raises, self._heap has not been assigned
\* and nothing has been inserted (heap <<>>)
HeapQueueInit(items, ht, key) ==
    IF key = NoKey /\ items # <<>> /\ \E i \in 1..Len(items) : ~__is_sortable(items[i])
    THEN [heap |-> <<>>, err |-> TypeError, ret |-> <<>>, n |-> 0]
    ELSE InitLoop(<<>>, key, ht, items, 1, 0)

__len__(h) == Len(h)

\* peek that takes the root out of the heap, as pop does
PeekPops(h) ==
    IF Len(h) = 0 THEN [heap |-> h, err |-> IndexError, ret |-> <<>>, n |-> 0]
    ELSE [heap |-> heappop(h).h, err |-> NoErr, ret |-> <<h[1].v>>, n |-> 0]

peek(h) ==
    IF Len(h) = 0 THEN [heap |-> h, err |-> IndexError, ret |-> <<>>, n |-> 0]
    ELSE [heap |-> h, err |-> NoErr, ret |-> <<h[1].v>>, n |-> 0]

\* push without the __is_sortable check
PushUnchecked(h, key, ht, item) ==
    LET r == heappush(h, __prepare_value(key, ht, item))
    IN  [heap |-> r.h, err |-> IF r.err THEN TypeError ELSE NoErr,
         ret |-> <<>>, n |-> IF r.err THEN 0 ELSE 1]

push(h, key, ht, item) ==
    IF key = NoKey /\ ~__is_sortable(item)
    THEN [heap |-> h, err |-> TypeError, ret |-> <<>>, n |-> 0]
    ELSE LET r == heappush(h, __prepare_value(key, ht, item))
         IN  [heap |-> r.h, err |-> IF r.err THEN TypeError ELSE NoErr,
              ret |-> <<>>, n |-> IF r.err THEN 0 ELSE 1]

\* pop that raises pop_k's ValueError on an empty queue
PopWrongError(h) ==
    IF Len(h) = 0 THEN [heap |-> h, err |-> ValueError, ret |-> <<>>, n |-> 0]
    ELSE LET r == heappop(h)
         IN  IF r.err THEN [heap |-> r.h, err |-> TypeError, ret |-> <<>>, n |-> 0]
             ELSE [heap |-> r.h, err |-> NoErr, ret |-> <<r.ret.v>>, n |-> 1]

pop(h) ==
    IF Len(h) = 0 THEN [heap |-> h, err |-> IndexError, ret |-> <<>>, n |-> 0]
    ELSE LET r == heappop(h)
         IN  IF r.err THEN [heap |-> r.h, err |-> TypeError, ret |-> <<>>, n |-> 0]
             ELSE [heap |-> r.h, err |-> NoErr, ret |-> <<r.ret.v>>, n |-> 1]

\* the loop of push_all, from item i on; n counts the items inserted
RECURSIVE PushAllLoop(_, _, _, _, _, _)
PushAllLoop(h, key, ht, items, i, n) ==
    IF i > Len(items) THEN [heap |-> h, err |-> NoErr, ret |-> <<>>, n |-> n]
    ELSE IF key = NoKey /\ ~__is_sortable(items[i])
    THEN [heap |-> h, err |-> TypeError, ret |-> <<>>, n |-> n]
    ELSE LET r == heappush(h, __prepare_value(key, ht, items[i]))
         IN  IF r.err THEN [heap |-> r.h, err |-> TypeError, ret |-> <<>>, n |-> n]
             ELSE PushAllLoop(r.h, key, ht, items, i + 1, n + 1)

\* push_all that validates every item before inserting any (all-or-nothing)
PushAllValidateFirst(h, key, ht, items) ==
    IF key = NoKey /\ \E i \in 1..Len(items) : ~__is_sortable(items[i])
    THEN [heap |-> h, err |-> TypeError, ret |-> <<>>, n |-> 0]
    ELSE InitLoop(h, key, ht, items, 1, 0)

push_all(h, key, ht, items) == PushAllLoop(h, key, ht, items, 1, 0)

\* the loop of pop_k: j pops still to do, result built so far
RECURSIVE PopKLoop(_, _, _)
PopKLoop(h, j, result) ==
    IF j = 0 THEN [heap |-> h, err |-> NoErr, ret |-> result, n |-> Len(result)]
    ELSE LET r == heappop(h)
         IN  IF r.err THEN [heap |-> r.h, err |-> TypeError, ret |-> <<>>, n |-> 0]
             ELSE PopKLoop(r.h, j - 1, Append(result, r.ret.v))

\* pop_k that tests k < 0 instead of k <= 0
PopKAllowsZero(h, kk) ==
    IF kk < 0 THEN [heap |-> h, err |-> ValueError, ret |-> <<>>, n |-> 0]
    ELSE IF kk > Len(h) THEN [heap |-> h, err |-> IndexError, ret |-> <<>>, n |-> 0]
    ELSE PopKLoop(h, kk, <<>>)

pop_k(h, kk) ==
    IF kk <= 0 THEN [heap |-> h, err |-> ValueError, ret |-> <<>>, n |-> 0]
    ELSE IF kk > Len(h) THEN [heap |-> h, err |-> IndexError, ret |-> <<>>, n |-> 0]
    ELSE PopKLoop(h, kk, <<>>)

\* sorted(list, key=lambda x: x[0]): stable, compares the keys with < only.
\* SortedInsert puts e after every entry that is not greater than it.
RECURSIVE SortedInsert(_, _)
SortedInsert(s, e) ==
    IF s = <<>> THEN <<e>>
    ELSE IF KeyLT(e.k, s[Len(s)].k) = 1
         THEN Append(SortedInsert(SubSeq(s, 1, Len(s) - 1), e), s[Len(s)])
         ELSE Append(s, e)

RECURSIVE sorted(_)
sorted(h) ==
    IF h = <<>> THEN <<>>
    ELSE SortedInsert(sorted(SubSeq(h, 1, Len(h) - 1)), h[Len(h)])

\* as_sorted_list that returns the heap array as it is
AsUnsortedList(h) ==
    [heap |-> h, err |-> NoErr, ret |-> [i \in 1..Len(h) |-> h[i].v], n |-> 0]

\* as_sorted_list that sorts self._heap in place (list.sort) instead of a copy
AsSortedListInPlace(h) ==
    [heap |-> sorted(h), err |-> NoErr, ret |-> [i \in 1..Len(h) |-> sorted(h)[i].v], n |-> 0]

\* as_sorted_list that sorts with reverse=True
AsSortedListReversed(h) ==
    [heap |-> h, err |-> NoErr,
     ret |-> [i \in 1..Len(h) |-> sorted(h)[Len(h) + 1 - i].v], n |-> 0]

as_sorted_list(h) ==
    [heap |-> h, err |-> NoErr, ret |-> [i \in 1..Len(h) |-> sorted(h)[i].v], n |-> 0]

\* ---------------------------------------------------------------- state
VARIABLES
    heap,           \* self._heap
    heap_type,      \* self.heap_type
    key_function,   \* self._key_function
    op,             \* the last call
    args,           \* its element arguments
    k,              \* its integer argument (pop_k)
    ret,            \* the elements it returned
    err,            \* the exception it raised
    inserted,       \* insertions that completed without an exception
    removed         \* elements returned by pop and pop_k

vars == <<heap, heap_type, key_function, op, args, k, ret, err, inserted, removed>>

\* The docstrings require the elements of one queue to be of one data type
\* when a key function orders them (anything else is undefined behaviour).
\* Without a key function any object may be offered and __is_sortable
\* decides; it looks at the class only, so one object without ordering
\* stands for all of them.
Dummy == [val |-> 0, cmp |-> FALSE]

Offered(key, h, items) ==
    IF key = NoKey
    THEN \A i \in 1..Len(items) : items[i].cmp \/ items[i] = Dummy
    ELSE \A i \in 1..Len(items) :
          /\ items[i].cmp = items[1].cmp
          /\ h # <<>> => items[i].cmp = h[1].v.cmp

Batches == SeqsUpTo(MaxBatch)

Init ==
    /\ heap_type \in HeapType
    /\ key_function \in KeyFunctions
    /\ args \in Batches
    /\ Offered(key_function, <<>>, args)
    /\ heap = HeapQueueInit(args, heap_type, key_function).heap
    /\ err = HeapQueueInit(args, heap_type, key_function).err
    /\ inserted = HeapQueueInit(args, heap_type, key_function).n
    /\ op = "__init__"
    /\ k = 0
    /\ ret = <<>>
    /\ removed = 0

\* a constructor that raised leaves no object to call
Constructed == ~(op = "__init__" /\ err # NoErr)

Apply(name, a, kk, r) ==
    /\ heap' = r.heap
    /\ err' = r.err
    /\ ret' = r.ret
    /\ op' = name
    /\ args' = a
    /\ k' = kk
    /\ UNCHANGED <<heap_type, key_function>>

Peek ==
    /\ Constructed
    /\ Apply("peek", <<>>, 0, peek(heap))
    /\ UNCHANGED <<inserted, removed>>

Push ==
    /\ Constructed
    /\ Len(heap) < MaxLen
    /\ inserted < MaxIns
    /\ \E item \in Items :
        /\ Offered(key_function, heap, <<item>>)
        /\ LET r == push(heap, key_function, heap_type, item)
           IN  /\ Apply("push", <<item>>, 0, r)
               /\ inserted' = inserted + r.n
    /\ UNCHANGED removed

Pop ==
    /\ Constructed
    /\ removed < MaxIns
    /\ LET r == pop(heap)
       IN  /\ Apply("pop", <<>>, 0, r)
           /\ removed' = removed + r.n
    /\ UNCHANGED inserted

PushAll ==
    /\ Constructed
    /\ \E items \in Batches :
        /\ Len(heap) + Len(items) <= MaxLen
        /\ inserted + Len(items) <= MaxIns
        /\ Offered(key_function, heap, items)
        /\ LET r == push_all(heap, key_function, heap_type, items)
           IN  /\ Apply("push_all", items, 0, r)
               /\ inserted' = inserted + r.n
    /\ UNCHANGED removed

PopK ==
    /\ Constructed
    /\ \E kk \in -1..(MaxLen + 1) :
        /\ kk <= Len(heap) => removed + kk <= MaxIns
        /\ LET r == pop_k(heap, kk)
           IN  /\ Apply("pop_k", <<>>, kk, r)
               /\ removed' = removed + r.n
    /\ UNCHANGED inserted

AsSortedList ==
    /\ Constructed
    /\ Apply("as_sorted_list", <<>>, 0, as_sorted_list(heap))
    /\ UNCHANGED <<inserted, removed>>

Next == Peek \/ Push \/ Pop \/ PushAll \/ PopK \/ AsSortedList

Spec == Init /\ [][Next]_vars

\* Longer queues, for runs of pop(): a queue with a key function whose
\* elements are of one class without ordering, driven by push and pop only.
InitLong ==
    /\ Init
    /\ key_function = HalfKey
    /\ \A i \in 1..Len(args) : ~args[i].cmp

PushLong ==
    /\ Constructed
    /\ Len(heap) < MaxLenLong
    /\ inserted < MaxInsLong
    /\ \E item \in Items :
        /\ ~item.cmp
        /\ Offered(key_function, heap, <<item>>)
        /\ LET r == push(heap, key_function, heap_type, item)
           IN  /\ Apply("push", <<item>>, 0, r)
               /\ inserted' = inserted + r.n
    /\ UNCHANGED removed

PopLong ==
    /\ Constructed
    /\ removed < MaxPopsLong
    /\ LET r == pop(heap)
       IN  /\ Apply("pop", <<>>, 0, r)
           /\ removed' = removed + r.n
    /\ UNCHANGED inserted

NextLong == PushLong \/ PopLong

SpecLong == InitLong /\ [][NextLong]_vars

TypeOK ==
    /\ heap_type \in HeapType
    /\ key_function \in KeyFunctions
    /\ Len(heap) <= MaxLen
    /\ inserted \in 0..MaxIns

\* ---------------------------------------------------------------- properties
\* priority of a <= priority of b, the priority being key(item) when a key
\* function is configured and the item itself otherwise
PrioLE(key, a, b) ==
    IF key # NoKey THEN KeyFunction(a) <= KeyFunction(b) ELSE ObjLT(b, a) # 1

Count(h, e) == Cardinality({i \in 1..Len(h) : h[i].v = e})

CountIn(items, e) == Cardinality({i \in 1..Len(items) : items[i] = e})

\* parent's ordering key <= child's ordering key, everywhere in the array
HeapInvariant(h) == \A i \in 2..Len(h) : KeyLT(h[i].k, h[i \div 2].k) # 1

\* what peek() returns is held and no held element has a better priority
PeekIsExtreme(h, key, ht) ==
    h # <<>> =>
        /\ peek(h).err = NoErr
        /\ Count(h, peek(h).ret[1]) > 0
        /\ \A i \in 1..Len(h) :
              IF ht = MIN_HEAP THEN PrioLE(key, peek(h).ret[1], h[i].v)
              ELSE PrioLE(key, h[i].v, peek(h).ret[1])

SizeInvariant == __len__(heap) = inserted - removed

\* n times pop() on a copy of the queue: the elements returned, or the
\* exception that ended the run
RECURSIVE Pops(_, _, _)
Pops(h, n, result) ==
    IF n = 0 THEN [err |-> NoErr, ret |-> result, heap |-> h]
    ELSE IF pop(h).err # NoErr THEN [err |-> pop(h).err, ret |-> result, heap |-> pop(h).heap]
    ELSE Pops(pop(h).heap, n - 1, result \o pop(h).ret)

Reverse(s) == [i \in 1..Len(s) |-> s[Len(s) + 1 - i]]

\* the elements support comparison with each other
AllComparable(h) == \A i \in 1..Len(h) : h[i].v.cmp

\* no two different held elements have the same priority
NoTies(h, key) ==
    \A i, j \in 1..Len(h) :
        h[i].v # h[j].v => ~(PrioLE(key, h[i].v, h[j].v) /\ PrioLE(key, h[j].v, h[i].v))

\* C1: whenever the queue is not empty, peek() returns a held element whose
\* priority is the minimum (MIN_HEAP) or the maximum (MAX_HEAP) of the
\* priorities held.
C1_PeekReturnsExtreme ==
    Constructed => PeekIsExtreme(heap, key_function, heap_type)

\* C2: len(queue) is the number of successful insertions minus the number of
\* elements removed by successful pop and pop_k calls, and a push that raises
\* does not change len.
C2_SizeIsInsertsMinusRemovals ==
    /\ [](Constructed => SizeInvariant)
    /\ [][op' = "push" /\ err' # NoErr => __len__(heap') = __len__(heap)]_vars

\* C3: in every reachable state the list as_sorted_list() returns is
\* identical, position by position, to what n calls of pop() on a copy
\* return, ties included.
C3_SortedListEqualsPops ==
    Constructed =>
        /\ Pops(heap, Len(heap), <<>>).err = NoErr
        /\ as_sorted_list(heap).ret = Pops(heap, Len(heap), <<>>).ret

\* C3 as amended: the same, for the states in which the held elements
\* support comparison and no two different held elements have the same
\* priority.
C3_SortedListEqualsPopsNoTies ==
    Constructed /\ AllComparable(heap) /\ NoTies(heap, key_function) =>
        /\ Pops(heap, Len(heap), <<>>).err = NoErr
        /\ as_sorted_list(heap).ret = Pops(heap, Len(heap), <<>>).ret

C3_Witness ==
    /\ op = "as_sorted_list"
    /\ key_function = HalfKey
    /\ Len(heap) >= 3
    /\ AllComparable(heap) /\ NoTies(heap, key_function)
    /\ \E i \in 1..Len(heap) : heap[i].v # heap[1].v
    /\ ret = Pops(heap, Len(heap), <<>>).ret

\* the lists pop_k(len(S)) returns on a MAX_HEAP and on a MIN_HEAP queue
\* built from S with the key function
PopAllOf(S, ht, key) == pop_k(HeapQueueInit(S, ht, key).heap, Len(S))

SymmetricOn(S, key) ==
    /\ HeapQueueInit(S, MAX_HEAP, key).err = NoErr
    /\ HeapQueueInit(S, MIN_HEAP, key).err = NoErr
    /\ PopAllOf(S, MAX_HEAP, key).err = NoErr
    /\ PopAllOf(S, MIN_HEAP, key).err = NoErr
    /\ PopAllOf(S, MAX_HEAP, key).ret = Reverse(PopAllOf(S, MIN_HEAP, key).ret)

DistinctPriorities(S) ==
    \A i, j \in 1..Len(S) : S[i] # S[j] => KeyFunction(S[i]) # KeyFunction(S[j])

C5_PopKRejectsBadK ==
    [][op' = "pop_k" =>
        /\ k' <= 0 => err' = ValueError /\ heap' = heap /\ ret' = <<>>
        /\ k' > 0 /\ k' > Len(heap) => err' = IndexError /\ heap' = heap /\ ret' = <<>>]_vars

C5_Witness ==
    /\ op = "pop_k" /\ err = IndexError
    /\ heap # <<>> /\ k = Len(heap) + 1

\* C6: for 1 <= k <= len(queue), pop_k(k) returns the k elements that k
\* consecutive pop() calls return from the same state, and len(queue) drops
\* by exactly k.
C6_PopKIsKPops ==
    [][op' = "pop_k" /\ 1 <= k' /\ k' <= Len(heap) =>
        /\ err' = NoErr
        /\ Len(ret') = k'
        /\ ret' = Pops(heap, k', <<>>).ret
        /\ Len(heap') = Len(heap) - k']_vars

\* C7: on an empty queue peek() and pop() raise IndexError and pop_k(1)
\* raises IndexError; the queue is still empty afterwards, as a freshly
\* constructed empty queue is.
C7_EmptyQueueErrors ==
    [][heap = <<>> /\ (op' \in {"peek", "pop"} \/ (op' = "pop_k" /\ k' = 1)) =>
        /\ err' = IndexError
        /\ ret' = <<>>
        /\ heap' = HeapQueueInit(<<>>, heap_type, key_function).heap
        /\ UNCHANGED <<heap_type, key_function, inserted, removed>>]_vars

C7_Witness ==
    /\ op = "pop" /\ err = IndexError /\ heap = <<>>
    /\ inserted > 0

\* C8: without a key function, push(item) of an item that does not support
\* comparison raises TypeError and leaves the entries, the size and what
\* peek() returns as they were.
C8_PushUnorderableRejected ==
    [][op' = "push" /\ key_function = NoKey /\ ~__is_sortable(args'[1]) =>
        /\ err' = TypeError
        /\ heap' = heap
        /\ __len__(heap') = __len__(heap)
        /\ peek(heap') = peek(heap)]_vars

C8_Witness ==
    /\ op = "push" /\ key_function = NoKey /\ err = TypeError
    /\ ~__is_sortable(args[1])
    /\ Len(heap) >= 2

\* position of the first item of items that does not support comparison
\* (Len(items) + 1 when there is none)
FirstUnsortable(items) ==
    IF \E i \in 1..Len(items) : ~__is_sortable(items[i])
    THEN CHOOSE i \in 1..Len(items) :
            /\ ~__is_sortable(items[i])
            /\ \A j \in 1..(i - 1) : __is_sortable(items[j])
    ELSE Len(items) + 1

\* C9: without a key function, push_all(items) whose first non-comparable
\* item is at position i raises TypeError; the queue then holds what it held
\* plus exactly the items before position i, and still satisfies the
\* heap-order and size invariants.
C9_PushAllPartialEffect ==
    [][op' = "push_all" /\ key_function = NoKey
         /\ FirstUnsortable(args') <= Len(args') =>
        /\ err' = TypeError
        /\ \A e \in Items :
              Count(heap', e) = Count(heap, e)
                  + CountIn(SubSeq(args', 1, FirstUnsortable(args') - 1), e)
        /\ __len__(heap') = __len__(heap) + FirstUnsortable(args') - 1
        /\ inserted' = inserted + FirstUnsortable(args') - 1
        /\ HeapInvariant(heap')
        /\ PeekIsExtreme(heap', key_function, heap_type)
        /\ SizeInvariant']_vars

C9_Witness ==
    /\ op = "push_all" /\ key_function = NoKey /\ err = TypeError
    /\ Len(args) = 2 /\ FirstUnsortable(args) = 2
    /\ Len(heap) >= 2
    /\ heap[1].v = args[1]

\* C10: constructing a queue without a key function from initial items of
\* which one does not support comparison raises TypeError before anything is
\* inserted: no prefix of the items is in the heap.
C10_InitAllOrNothing ==
    op = "__init__" /\ key_function = NoKey /\ FirstUnsortable(args) <= Len(args) =>
        /\ err = TypeError
        /\ heap = <<>>
        /\ inserted = 0

C10_Witness ==
    /\ op = "__init__" /\ key_function = NoKey /\ err = TypeError
    /\ Len(args) = 2 /\ FirstUnsortable(args) = 2

\* n times peek() with nothing in between: the queue after them and the
\* elements they returned
RECURSIVE Peeks(_, _, _)
Peeks(h, n, result) ==
    IF n = 0 THEN [heap |-> h, ret |-> result]
    ELSE Peeks(peek(h).heap, n - 1, result \o peek(h).ret)

\* C11: on a non-empty queue peek() raises nothing, and any number of
\* peek() calls with no mutation in between return the same element every
\* time and leave the entries and len(queue) as they were.
C11_PeekIdempotent ==
    [][op' = "peek" /\ heap # <<>> =>
        /\ err' = NoErr
        /\ Len(ret') = 1
        /\ heap' = heap
        /\ __len__(heap') = __len__(heap)
        /\ \A n \in 1..MaxPeeks :
              /\ Peeks(heap, n, <<>>).heap = heap
              /\ Len(Peeks(heap, n, <<>>).ret) = n
              /\ \A i \in 1..n : Peeks(heap, n, <<>>).ret[i] = ret'[1]]_vars

C11_Witness ==
    /\ op = "peek" /\ err = NoErr
    /\ Len(heap) >= 3
    /\ Peeks(heap, MaxPeeks, <<>>).ret = [i \in 1..MaxPeeks |-> ret[1]]

\* the list holds exactly the elements of the heap array, each as often
IsPermutationOfHeld(list, h) ==
    /\ Len(list) = __len__(h)
    /\ \A e \in Items : CountIn(list, e) = Count(h, e)

\* priorities non-decreasing along the list for MIN_HEAP, non-increasing
\* for MAX_HEAP
ExtremeFirst(list, key, ht) ==
    \A i, j \in 1..Len(list) :
        i < j => IF ht = MIN_HEAP THEN PrioLE(key, list[i], list[j])
                 ELSE PrioLE(key, list[j], list[i])

\* C12: in every reachable state as_sorted_list() raises nothing and
\* returns a permutation of the elements held (empty for an empty queue),
\* priorities non-decreasing for MIN_HEAP and non-increasing for MAX_HEAP.
C12_SortedListIsSortedPermutation ==
    Constructed =>
        /\ as_sorted_list(heap).err = NoErr
        /\ IsPermutationOfHeld(as_sorted_list(heap).ret, heap)
        /\ heap = <<>> => as_sorted_list(heap).ret = <<>>
        /\ ExtremeFirst(as_sorted_list(heap).ret, key_function, heap_type)

C12_Witness ==
    /\ op = "as_sorted_list" /\ err = NoErr
    /\ Len(heap) >= 3 /\ Len(ret) = Len(heap)
    /\ ret # [i \in 1..Len(heap) |-> heap[i].v]
    /\ \E i, j \in 1..Len(ret) : i < j /\ ret[i] = ret[j]
    /\ ~PrioLE(key_function, ret[1], ret[Len(ret)]) \/ ~PrioLE(key_function, ret[Len(ret)], ret[1])
    /\ IsPermutationOfHeld(ret, heap)

\* C13: as_sorted_list() leaves the heap array (the entries and their
\* positions), len(queue), the polarity and the key function as they were,
\* so peek() and pop() afterwards do what they would have done before it.
C13_SortedListLeavesQueueUnchanged ==
    [][op' = "as_sorted_list" =>
        /\ heap' = heap
        /\ __len__(heap') = __len__(heap)
        /\ heap_type' = heap_type
        /\ key_function' = key_function
        /\ peek(heap') = peek(heap)
        /\ pop(heap') = pop(heap)]_vars

C13_Witness ==
    /\ op = "as_sorted_list" /\ err = NoErr
    /\ Len(heap) >= 3
    /\ heap # sorted(heap)
    /\ ret = [i \in 1..Len(heap) |-> sorted(heap)[i].v]
    /\ pop(heap).err = NoErr

\* C14: on a non-empty queue pop() returns the element peek() returns in
\* the same state, removes exactly that one entry (len drops by 1, every
\* other held entry stays held), and leaves an array that satisfies the
\* heap invariant.
C14_PopReturnsPeekAndRemovesIt ==
    [][op' = "pop" /\ heap # <<>> =>
        /\ err' = NoErr
        /\ ret' = peek(heap).ret
        /\ __len__(heap') = __len__(heap) - 1
        /\ \A e \in Items :
              Count(heap', e) = Count(heap, e) - CountIn(peek(heap).ret, e)
        /\ HeapInvariant(heap')]_vars

\* some held element has the priority of item
TiesWithHeld(h, item) == \E i \in 1..Len(h) : KeyFunction(h[i].v) = KeyFunction(item)

\* C15: the heap orders its entries by the ordering key alone and never
\* compares the elements: with a key function, constructing from any items
\* succeeds and holds them all, and push of an item whose priority equals
\* that of a held item succeeds and adds the item, as does push_all of such
\* items, comparable with each other or not.
C15_OrdersSolelyByKey ==
    /\ [](op = "__init__" /\ key_function # NoKey =>
            err = NoErr /\ IsPermutationOfHeld(args, heap))
    /\ [][op' = "push" /\ key_function # NoKey /\ TiesWithHeld(heap, args'[1]) =>
            /\ err' = NoErr
            /\ __len__(heap') = __len__(heap) + 1
            /\ \A e \in Items : Count(heap', e) = Count(heap, e) + CountIn(args', e)]_vars
    /\ [][op' = "push_all" /\ key_function # NoKey =>
            /\ err' = NoErr
            /\ \A e \in Items : Count(heap', e) = Count(heap, e) + CountIn(args', e)]_vars

\* C16: in every state reachable by construction, push, push_all, pop and
\* pop_k the array satisfies the binary-heap invariant: the ordering key of
\* each entry's parent is <= the entry's ordering key.
C16_HeapInvariantAlways ==
    Constructed => HeapInvariant(heap)

\* the elements the step inserted (the calls of heappush that returned) and
\* the elements it returned from pop / pop_k
InsertedInStep == IF op' \in {"push", "push_all"} THEN SubSeq(args', 1, inserted' - inserted) ELSE <<>>

RemovedInStep == IF op' \in {"pop", "pop_k"} THEN ret' ELSE <<>>

\* C17: the queue is constructed holding exactly its initial items; every
\* call changes the multiset of held elements by exactly the elements it
\* inserted and the elements pop / pop_k returned; and push, push_all,
\* peek, as_sorted_list and every call that raises keep every held entry.
C17_NoElementLostOrDuplicated ==
    /\ [](op = "__init__" /\ Constructed => IsPermutationOfHeld(args, heap))
    /\ [][\A e \in Items :
            /\ Count(heap', e) = Count(heap, e) + CountIn(InsertedInStep, e)
                                    - CountIn(RemovedInStep, e)
            /\ op' \in {"push", "push_all", "peek", "as_sorted_list"} \/ err' # NoErr =>
                    Count(heap', e) >= Count(heap, e)]_vars

\* the items are all orderable, or a key function is configured
Insertable(key, items) == key # NoKey \/ \A i \in 1..Len(items) : __is_sortable(items[i])

\* HeapQueue(items, heap_type, key) is the queue that HeapQueue(heap_type=...,
\* key=...) followed by push_all(items) is
SameAsPushAll(items, ht, key) ==
    /\ HeapQueueInit(items, ht, key).err = NoErr
    /\ HeapQueueInit(<<>>, ht, key).err = NoErr
    /\ push_all(HeapQueueInit(<<>>, ht, key).heap, key, ht, items).err = NoErr
    /\ HeapQueueInit(items, ht, key).heap
         = push_all(HeapQueueInit(<<>>, ht, key).heap, key, ht, items).heap
    /\ Pops(HeapQueueInit(items, ht, key).heap, Len(items), <<>>)
         = Pops(push_all(HeapQueueInit(<<>>, ht, key).heap, key, ht, items).heap, Len(items), <<>>)

\* C18: constructing a queue from items that are all orderable, or with a
\* key function, succeeds and yields the heap array, the size and the pop
\* order that constructing an empty queue with the same heap_type and key
\* and calling push_all with the same items yields.
C18_ConstructEqualsPushAll ==
    /\ [](op = "__init__" /\ Insertable(key_function, args) =>
            /\ err = NoErr
            /\ SameAsPushAll(args, heap_type, key_function))
    /\ [][op = "__init__" /\ args = <<>> /\ op' = "push_all"
            /\ Insertable(key_function, args') =>
            /\ err' = NoErr
            /\ heap' = HeapQueueInit(args', heap_type, key_function).heap
            /\ __len__(heap') = __len__(HeapQueueInit(args', heap_type, key_function).heap)]_vars

\* C19: when a pop() that returned an element is followed directly by
\* another pop() that returns an element, the second element's priority is
\* >= the first one's for MIN_HEAP and <= the first one's for MAX_HEAP.
C19_ConsecutivePopsMonotone ==
    [][op = "pop" /\ err = NoErr /\ op' = "pop" /\ err' = NoErr =>
        IF heap_type = MIN_HEAP THEN PrioLE(key_function, ret[1], ret'[1])
        ELSE PrioLE(key_function, ret'[1], ret[1])]_vars

====
